---- MODULE Spec2Model ----
(***************************************************************************)
(* Conversation orchestration of the antenatal education chatbot:          *)
(* the WhatsApp webhook (app/api/endpoints/webhook.py), the envelope       *)
(* parser and the retrying dispatcher (app/services/whatsapp.py), the      *)
(* orchestrator and registration flow (app/services/conversation_handler), *)
(* the user service, the danger-sign classifier and the response           *)
(* generator.                                                              *)
(*                                                                         *)
(* A text is a sequence of tokens: a token is either SP, a maximal run of  *)
(* whitespace, or a word, a maximal run of non-whitespace characters.      *)
(* An Optional value is None (the empty tuple) or Some(v) (a 1-tuple).     *)
(***************************************************************************)
EXTENDS Integers, Sequences, FiniteSets, TLC

VARIABLES appSecret, users, turnCount, history, today, last, adminEdits,
          appended, inflight

vars == <<appSecret, users, turnCount, history, today, last, adminEdits,
          appended, inflight>>

(* ---------------------------- bounds ----------------------------------- *)
MaxTurns == 4
MaxDay == 7
StartDay == 3
MaxAdminEdits == 1
MaxAppends == 8
MaxDeliveries == 2

(* ---------------------------- optionals -------------------------------- *)
None == <<>>
Some(v) == <<v>>
IsNone(o) == o = <<>>
Get(o) == o[1]

(* ---------------------------- texts ------------------------------------ *)
SP == " "

Texts ==
  { <<SP, "NDIYO", SP>>,
    <<"No">>,
    <<"maybe">>,
    <<SP>>,
    <<"20">>,
    <<"42">>,
    <<"43">>,
    <<"45">>,
    <<"0", SP, "weeks">>,
    <<"heavy", SP, "Bleeding">> }

WaIds == {"254700000001"}

(* e evaluated once, its value handed to F *)
Bind(e, F(_)) == CHOOSE r \in { F(x) : x \in {e} } : TRUE

(* str.lower(): the tokens of Texts that hold an upper-case letter *)
LowerTok(t) ==
  CASE t = "NDIYO" -> "ndiyo"
    [] t = "No" -> "no"
    [] t = "Bleeding" -> "bleeding"
    [] t = "I" -> "i"
    [] t = "What" -> "what"
    [] t = "Hello" -> "hello"
    [] OTHER -> t

Lower(text) == [i \in 1..Len(text) |-> LowerTok(text[i])]

RECURSIVE LStrip(_)
LStrip(text) ==
  IF text # <<>> /\ Head(text) = SP THEN LStrip(Tail(text)) ELSE text

RECURSIVE RStrip(_)
RStrip(text) ==
  IF text # <<>> /\ text[Len(text)] = SP
  THEN RStrip(SubSeq(text, 1, Len(text) - 1))
  ELSE text

(* str.strip() *)
Strip(text) == RStrip(LStrip(text))

(* str.split(): the words, whitespace runs dropped *)
Split(text) == SelectSeq(text, LAMBDA t : t # SP)

(* the words of a sentence separated by single spaces *)
Sentence(words) ==
  [i \in 1..(2 * Len(words) - 1) |->
     IF i % 2 = 1 THEN words[(i + 1) \div 2] ELSE SP]

(* int(token): the decimal numerals; any other token raises ValueError *)
Numerals == {"0", "1", "20", "42", "43", "45", "-5"}

IntOf(t) ==
  CASE t = "0" -> 0
    [] t = "1" -> 1
    [] t = "20" -> 20
    [] t = "42" -> 42
    [] t = "43" -> 43
    [] t = "45" -> 45
    [] t = "-5" -> 0 - 5

(* int(text_lower.strip().split()[0]) with the range check of lines 221-224:
   Some(weeks) or None when ValueError / IndexError is raised *)
(* a range check that lets 43..45 through *)
ParseWeeks_Upto45(text_lower) ==
  LET toks == Split(Strip(text_lower))
  IN IF toks = <<>> THEN None
     ELSE IF toks[1] \notin Numerals THEN None
     ELSE IF IntOf(toks[1]) < 1 \/ IntOf(toks[1]) > 45 THEN None
     ELSE Some(IntOf(toks[1]))

ParseWeeks(text_lower) ==
  LET toks == Split(Strip(text_lower))
  IN IF toks = <<>> THEN None
     ELSE IF toks[1] \notin Numerals THEN None
     ELSE IF IntOf(toks[1]) < 1 \/ IntOf(toks[1]) > 42 THEN None
     ELSE Some(IntOf(toks[1]))

(* ---------------------- danger-sign classifier ------------------------- *)
(* DANGER_SIGN_PATTERNS: per category, in table order, the patterns in
   order; a pattern is the list of word sequences it matches at one
   position, in the regex's order of preference (\s+ is a whitespace run,
   \b a token boundary, IGNORECASE is matching on the lowered words). *)
Categories ==
  <<"bleeding", "headache_vision", "fever", "fetal_movement",
    "abdominal_pain", "water_breaking", "convulsions", "swelling">>

DANGER_SIGN_PATTERNS ==
  [ bleeding |->
      << << <<"heavy", "bleeding">>, <<"bleeding">> >>,
         << <<"excessive", "blood">> >>,
         << <<"blood", "clots">>, <<"blood", "clot">>, <<"blood", "loss">> >>,
         << <<"kutoka", "damu">> >>,
         << <<"damu", "nyingi">> >> >>,
    headache_vision |->
      << << <<"severe", "headache">> >>,
         << <<"blurred", "vision">>, <<"blurre", "vision">> >>,
         << <<"vision", "is", "blurred">>, <<"vision", "is", "blurre">>,
            <<"vision", "blurred">>, <<"vision", "blurre">> >>,
         << <<"seeing", "spots">>, <<"seeing", "spot">>,
            <<"seeing", "stars">>, <<"seeing", "star">> >>,
         << <<"kichwa", "kuuma">> >>,
         << <<"macho", "kuona", "vibaya">> >> >>,
    fever |->
      << << <<"high", "fever">> >>,
         << <<"severe", "fever">> >>,
         << <<"chills">> >>,
         << <<"homa", "kali">> >>,
         << <<"baridi", "mwilini">> >> >>,
    fetal_movement |->
      << << <<"reduced", "fetal", "movement">> >>,
         << <<"no", "fetal", "movement">>, <<"no", "movement">> >>,
         << <<"baby", "not", "moving">>, <<"baby", "stopped", "moving">>,
            <<"baby", "stoppe", "moving">>, <<"baby", "isn't", "moving">>,
            <<"baby", "isnt", "moving">> >>,
         << <<"can't", "feel", "the", "baby">>, <<"cant", "feel", "the", "baby">>,
            <<"can't", "feel", "baby">>, <<"cant", "feel", "baby">> >>,
         << <<"mtoto", "hatembei">>, <<"mtoto", "hachezi">> >> >>,
    abdominal_pain |->
      << << <<"severe", "abdominal", "pain">>, <<"severe", "pain">> >>,
         << <<"stomach", "pain">> >>,
         << <<"sharp", "pain">> >>,
         << <<"tumbo", "kuuma", "sana">> >> >>,
    water_breaking |->
      << << <<"water", "breaking">>, <<"water", "breaks">>,
            <<"water", "break">>, <<"water", "broke">> >>,
         << <<"fluid", "leaking">>, <<"fluid", "leakage">>,
            <<"fluid", "gushing">> >>,
         << <<"leaking", "fluid">> >>,
         << <<"maji", "yamekatika">>, <<"maji", "yakutoka">> >> >>,
    convulsions |->
      << << <<"convulsion">> >>,
         << <<"seizure">> >>,
         << <<"loss", "of", "consciousness">> >>,
         << <<"fainted">>, <<"fainting">> >>,
         << <<"passed", "out">>, <<"passe", "out">> >>,
         << <<"degedege">> >>,
         << <<"kupoteza", "fahamu">> >> >>,
    swelling |->
      << << <<"severe", "swelling">> >>,
         << <<"swollen", "face">>, <<"swollen", "hands">>,
            <<"swollen", "hand">>, <<"swollen", "feet">> >>,
         << <<"kuvimba", "sana">> >> >> ]

(* one alternative of a pattern matches the words starting at position i *)
VariantAt(words, i, variant) ==
  /\ i + Len(variant) - 1 <= Len(words)
  /\ \A k \in 1..Len(variant) : LowerTok(words[i + k - 1]) = variant[k]

(* pattern.search(message): the leftmost position where the pattern matches
   and the literal text matched there (match.group()), or None *)
PatternSearch(words, pattern) ==
  LET hits == { i \in 1..Len(words) :
                  \E v \in 1..Len(pattern) : VariantAt(words, i, pattern[v]) }
  IN IF hits = {} THEN None
     ELSE LET i == CHOOSE j \in hits : \A k \in hits : j <= k
              v == CHOOSE a \in 1..Len(pattern) :
                     /\ VariantAt(words, i, pattern[a])
                     /\ \A b \in 1..(a - 1) : ~VariantAt(words, i, pattern[b])
          IN Some(SubSeq(words, i, i + Len(pattern[v]) - 1))

(* the match of the last pattern of the category that matches *)
FirstPatternMatch_Last(words, patterns) ==
  Bind({ k \in 1..Len(patterns) : ~IsNone(PatternSearch(words, patterns[k])) },
       LAMBDA hits :
         IF hits = {} THEN None
         ELSE PatternSearch(words,
                patterns[CHOOSE k \in hits : \A j \in hits : k >= j]))

(* the inner loop of detect_danger_signs: the match of the first pattern of
   the category that matches, or None *)
FirstPatternMatch(words, patterns) ==
  Bind({ k \in 1..Len(patterns) : ~IsNone(PatternSearch(words, patterns[k])) },
       LAMBDA hits :
         IF hits = {} THEN None
         ELSE PatternSearch(words,
                patterns[CHOOSE k \in hits : \A j \in hits : k <= j]))

(* the outer loop: the categories in table order; a category that matches
   contributes its name and the text of its first match *)
detect_danger_signs(message) ==
  Bind([c \in 1..Len(Categories) |->
          FirstPatternMatch(Split(message), DANGER_SIGN_PATTERNS[Categories[c]])],
       LAMBDA matches :
         Bind(SelectSeq([c \in 1..Len(Categories) |-> c],
                        LAMBDA c : ~IsNone(matches[c])),
              LAMBDA found :
                [detected |-> Len(found) > 0,
                 categories |-> [i \in 1..Len(found) |-> Categories[found[i]]],
                 keywords |-> [i \in 1..Len(found) |-> Get(matches[found[i]])]]))

(* the classifier's result on each text of the model, computed once *)
DetectionOf == [t \in Texts |-> detect_danger_signs(t)]

(* ---------------------- webhook envelope and signature ----------------- *)
(* The JSON envelope of a POST delivery, by the shape of each field that
   parse_webhook_message reads. *)
ValidBody(w, t) ==
  [json |-> "object", entry |-> "list", changes |-> "list",
   messages |-> "list", contacts |-> "wa_id", mtype |-> "text",
   fromField |-> "str", textField |-> "body", from |-> w, text |-> t]

BaseBody == ValidBody("254700000001", <<"maybe">>)

MalformedBodies ==
  { [BaseBody EXCEPT !.json = "invalid"],
    [BaseBody EXCEPT !.json = "array"],
    [BaseBody EXCEPT !.entry = "absent"],
    [BaseBody EXCEPT !.entry = "string"],
    [BaseBody EXCEPT !.entry = "dict"],
    [BaseBody EXCEPT !.changes = "empty"],
    [BaseBody EXCEPT !.messages = "absent"],
    [BaseBody EXCEPT !.contacts = "no_wa_id"],
    [BaseBody EXCEPT !.contacts = "empty"],
    [BaseBody EXCEPT !.mtype = "image"],
    [BaseBody EXCEPT !.fromField = "int"],
    [BaseBody EXCEPT !.textField = "string"],
    [BaseBody EXCEPT !.textField = "absent"] }

Bodies ==
  { ValidBody(w, t) : w \in WaIds, t \in Texts \cup {<<>>} } \cup MalformedBodies

(* hmac.new(key, payload, sha256).hexdigest(): a digest determined by the
   key and the raw body *)
Hmac(key, payload) == <<"hmac-sha256", key, payload>>

(* the X-Hub-Signature-256 header values a sender can attach to a body:
   the right one, one made with another key, the right one of another body,
   the digest without its prefix, the default "" and a non-ASCII value *)
NoSignature == [ascii |-> TRUE, value |-> <<>>]

SigHeaders(body) ==
  { [ascii |-> TRUE, value |-> <<"sha256=", Hmac("s3cret", body)>>],
    [ascii |-> TRUE, value |-> <<"sha256=", Hmac("guess", body)>>],
    [ascii |-> TRUE, value |-> <<"sha256=", Hmac("s3cret", [body EXCEPT !.text = <<"No">>])>>],
    [ascii |-> TRUE, value |-> <<Hmac("s3cret", body)>>],
    NoSignature,
    [ascii |-> FALSE, value |-> <<"sha256=", Hmac("guess", body)>>] }

(* hmac.compare_digest on two str raises TypeError unless both are ASCII *)
verify_whatsapp_signature(secret, payload, signature) ==
  IF ~signature.ascii
  THEN [raised |-> TRUE, ok |-> FALSE]
  ELSE [raised |-> FALSE,
        ok |-> signature.value = <<"sha256=", Hmac(secret, payload)>>]

(* WhatsAppClient.parse_webhook_message: [raised, msg]; raised is an
   exception other than KeyError / IndexError, which the function does not
   catch; msg is None or Some(WhatsAppMessage) *)
ParseNone == [raised |-> FALSE, msg |-> None]
ParseRaise == [raised |-> TRUE, msg |-> None]

parse_webhook_message(payload) ==
  IF payload.json = "array" THEN ParseRaise                 \* list has no .get
  ELSE IF payload.entry \in {"absent", "empty"} THEN ParseNone
  ELSE IF payload.entry = "string" THEN ParseRaise          \* str has no .get
  ELSE IF payload.entry = "dict" THEN ParseNone             \* entry[0]: KeyError
  ELSE IF payload.changes \in {"absent", "empty"} THEN ParseNone
  ELSE IF payload.messages \in {"absent", "empty"} THEN ParseNone
  ELSE IF payload.mtype = "text" /\ payload.textField = "string"
       THEN ParseRaise                                      \* str has no .get
  ELSE IF payload.contacts = "no_wa_id" THEN ParseNone      \* KeyError
  ELSE IF payload.fromField = "int" THEN ParseRaise         \* ValidationError
  ELSE [raised |-> FALSE,
        msg |-> Some([from_number |-> payload.from,
                      whatsapp_id |-> payload.from,
                      message_type |-> payload.mtype,
                      text |-> IF payload.mtype = "text" /\ payload.textField = "body"
                               THEN Some(payload.text) ELSE None])]

(* ---------------------- outbound dispatcher ---------------------------- *)
OkScript == <<"ok", "ok", "ok">>
RetryOkScript == <<"http_status", "request_error", "ok">>
FailStatusScript == <<"http_status", "http_status", "http_status">>
FailRequestScript == <<"request_error", "http_status", "request_error">>
OtherErrorScript == <<"other_error", "ok", "ok">>

SendScripts ==
  {OkScript, RetryOkScript, FailStatusScript, FailRequestScript, OtherErrorScript}

(* the exceptions the retry loop catches (lines 74 and 83) *)
RetriedErrors_All == {"http_status", "request_error", "other_error"}

RetriedErrors == {"http_status", "request_error"}

(* WhatsAppClient._send_request: the loop over range(3); script[k] is what
   the k-th POST does; [ok, attempts, error], ok = FALSE when an error
   propagates to the caller, error being the error of the last attempt made *)
RECURSIVE _send_request(_, _)
_send_request(script, attempt) ==
  LET outcome == script[attempt + 1]
  IN IF outcome = "ok"
     THEN [ok |-> TRUE, attempts |-> attempt + 1, error |-> "none"]
     ELSE IF outcome \in RetriedErrors
          THEN IF attempt = 2
               THEN [ok |-> FALSE, attempts |-> attempt + 1, error |-> outcome]
               ELSE _send_request(script, attempt + 1)
          ELSE [ok |-> FALSE, attempts |-> attempt + 1, error |-> outcome]

(* send_text_message: the record of one dispatch *)
send_text_message(kind, payload, script) ==
  Bind(_send_request(script, 0),
       LAMBDA r : [kind |-> kind, payload |-> payload, script |-> script,
                   ok |-> r.ok, attempts |-> r.attempts, error |-> r.error])

(* ---------------------- response generator ----------------------------- *)
MAX_CONTEXT_TURNS == 6
FallbackLenEn == 154
FallbackLenSw == 162
LongReplyLen == 21
ShortReplyLen == 20

GenOutcomes == {"long", "short", "blank", "empty", "error"}

_get_fallback_response_English(language) ==
  [src |-> "fallback_en", len |-> FallbackLenEn]

_get_fallback_response(language) ==
  IF language = "sw"
  THEN [src |-> "fallback_sw", len |-> FallbackLenSw]
  ELSE [src |-> "fallback_en", len |-> FallbackLenEn]

(* a read that answers from the list whatever the cache does *)
_get_conversation_history_Stale(hist, cacheUp) ==
  SubSeq(hist, 1, IF Len(hist) < MAX_CONTEXT_TURNS THEN Len(hist) ELSE MAX_CONTEXT_TURNS)

(* lrange(key, 0, MAX_CONTEXT_TURNS - 1); [] when the cache raises *)
_get_conversation_history(hist, cacheUp) ==
  IF cacheUp
  THEN SubSeq(hist, 1, IF Len(hist) < MAX_CONTEXT_TURNS THEN Len(hist) ELSE MAX_CONTEXT_TURNS)
  ELSE <<>>

(* rpush in place of lpush *)
_store_conversation_turn_Tail(hist, user_message, ai_response, cacheUp) ==
  IF cacheUp
  THEN LET pushed == hist \o <<[user |-> user_message, assistant |-> ai_response]>>
       IN SubSeq(pushed, 1,
                 IF Len(pushed) < MAX_CONTEXT_TURNS THEN Len(pushed) ELSE MAX_CONTEXT_TURNS)
  ELSE hist

(* lpush + ltrim(key, 0, MAX_CONTEXT_TURNS - 1); no change when the cache
   raises *)
_store_conversation_turn(hist, user_message, ai_response, cacheUp) ==
  IF cacheUp
  THEN LET pushed == <<[user |-> user_message, assistant |-> ai_response]>> \o hist
       IN SubSeq(pushed, 1,
                 IF Len(pushed) < MAX_CONTEXT_TURNS THEN Len(pushed) ELSE MAX_CONTEXT_TURNS)
  ELSE hist

(* AIEngine.generate_response: gen is what client.models.generate_content
   does (a text longer than 20 characters, a short text, a text of
   whitespace only, an empty text, an exception) *)
(* call is the record of the invocation: its arguments, what the backend
   and the cache did, the history read, the reply returned, and whether the
   turn reached the context store *)
generate_response(user_message, hist, language, is_danger_sign, gen, cacheUp) ==
  LET seen == _get_conversation_history(hist, cacheUp)
      call == [user_message |-> user_message, language |-> language,
               danger |-> is_danger_sign, gen |-> gen, cache |-> cacheUp,
               history |-> Len(seen), raised |-> FALSE]
  IN IF gen = "error"
     THEN LET fallback == _get_fallback_response(language)
          IN [reply |-> fallback, history |-> hist,
              call |-> call @@ [reply |-> fallback, append |-> FALSE,
                                stored |-> FALSE]]
     ELSE LET ai_response ==
                CASE gen = "long" -> [src |-> "backend", len |-> LongReplyLen]
                  [] gen = "short" -> [src |-> "backend", len |-> ShortReplyLen]
                  [] gen = "blank" -> [src |-> "backend", len |-> 0]
                  [] OTHER -> _get_fallback_response(language)
          IN [reply |-> ai_response,
              history |-> _store_conversation_turn(hist, user_message, ai_response, cacheUp),
              call |-> call @@ [reply |-> ai_response, append |-> TRUE,
                                stored |-> cacheUp]]

(* ---------------------- urgent-care message ---------------------------- *)
FacOutcomes == {"found", "none", "error"}

(* what get_emergency_response meets: the outcomes of the lookup, or no
   database session at all *)
LookupOutcomes == FacOutcomes \cup {"no_session"}

(* an empty lookup result handed to format_emergency_message *)
get_emergency_response_FormatEmpty(fac, language) ==
  LET lang == IF language = "sw" THEN "sw" ELSE "en"
  IN [header |-> <<"EMERGENCY_RESPONSE_HEADER", lang>>,
      contacts |-> IF fac \in {"found", "none"}
                   THEN <<"format_emergency_message", lang>>
                   ELSE <<"FALLBACK_CONTACTS", lang>>,
      footer |-> <<"EMERGENCY_RESPONSE_FOOTER", lang>>]

(* header + facilities_text + footer: each part in Swahili for "sw" and in
   English otherwise; facilities_text is format_emergency_message of the
   facilities found, and FALLBACK_CONTACTS when none is found, the lookup
   raises, or db is None *)
get_emergency_response(fac, language) ==
  LET lang == IF language = "sw" THEN "sw" ELSE "en"
  IN [header |-> <<"EMERGENCY_RESPONSE_HEADER", lang>>,
      contacts |-> IF fac = "found"
                   THEN <<"format_emergency_message", lang>>
                   ELSE <<"FALLBACK_CONTACTS", lang>>,
      footer |-> <<"EMERGENCY_RESPONSE_FOOTER", lang>>]

(* ---------------------- subscribers ------------------------------------ *)
STATE_AWAITING_CONSENT == "awaiting_consent"
STATE_AWAITING_NAME == "awaiting_name"
STATE_AWAITING_GESTATIONAL_AGE == "awaiting_gestational_age"
STATE_REGISTERED == "registered"

(* the registration state, derived from the fields in the order in which
   _handle_registration tests them *)
DerivedState(user) ==
  IF ~user.consent_given THEN STATE_AWAITING_CONSENT
  ELSE IF IsNone(user.name) THEN STATE_AWAITING_NAME
  ELSE IF IsNone(user.gestational_age_at_enrollment)
       THEN STATE_AWAITING_GESTATIONAL_AGE
  ELSE STATE_REGISTERED

Rank(state) ==
  CASE state = STATE_AWAITING_CONSENT -> 0
    [] state = STATE_AWAITING_NAME -> 1
    [] state = STATE_AWAITING_GESTATIONAL_AGE -> 2
    [] state = STATE_REGISTERED -> 3

(* UserService.create_user with UserCreate(phone_number, whatsapp_id) and
   the column defaults of User *)
(* creation that reads the first message as a consent reply *)
create_user_Consenting(message, now) ==
  [phone_number |-> message.from_number,
   study_group |-> "intervention",
   name |-> None,
   gestational_age_at_enrollment |-> None,
   expected_delivery_date |-> None,
   enrolled_at |-> now,
   is_active |-> TRUE,
   language_preference |-> "en",
   registration_complete |-> FALSE,
   consent_given |-> Lower(Strip(Get(message.text))) = <<"ndiyo">>,
   consent_given_at |-> None]

create_user(message, now) ==
  [phone_number |-> message.from_number,
   study_group |-> "intervention",
   name |-> None,
   gestational_age_at_enrollment |-> None,
   expected_delivery_date |-> None,
   enrolled_at |-> now,
   is_active |-> TRUE,
   language_preference |-> "en",
   registration_complete |-> FALSE,
   consent_given |-> FALSE,
   consent_given_at |-> None]

(* UserService.update_user: update_dict holds the fields that were set *)
update_user_DumpAll(user, update_dict, now) ==
  [f \in DOMAIN user |->
     IF f \in DOMAIN update_dict THEN update_dict[f]
     ELSE IF f = "consent_given_at" /\ "consent_given" \in DOMAIN update_dict
                                    /\ update_dict["consent_given"]
          THEN Some(now)
     ELSE IF f \in {"name", "gestational_age_at_enrollment", "expected_delivery_date"}
          THEN None
     ELSE user[f]]

update_user(user, update_dict, now) ==
  [f \in DOMAIN user |->
     IF f \in DOMAIN update_dict THEN update_dict[f]
     ELSE IF f = "consent_given_at" /\ "consent_given" \in DOMAIN update_dict
                                    /\ update_dict["consent_given"]
          THEN Some(now)
     ELSE user[f]]

(* UserService.set_gestational_age: dates are day numbers *)
set_gestational_age_FromLmp(user, weeks, now) ==
  [user EXCEPT !.gestational_age_at_enrollment = Some(weeks),
               !.expected_delivery_date = Some(now + 7 * 40)]

set_gestational_age(user, weeks, now) ==
  [user EXCEPT !.gestational_age_at_enrollment = Some(weeks),
               !.expected_delivery_date = Some(now + 7 * (40 - weeks))]

deactivate_user(user) == [user EXCEPT !.is_active = FALSE]

(* User.current_gestational_age *)
current_gestational_age(user, now) ==
  IF IsNone(user.gestational_age_at_enrollment) THEN None
  ELSE Some(Get(user.gestational_age_at_enrollment)
            + ((now - user.enrolled_at) \div 7))

(* ---------------------- orchestrator ----------------------------------- *)
(* ConversationHandler._log_message: the ConversationTurn written *)
(* ", ".join(keywords): each literal match is its words with the spaces
   between them *)
RECURSIVE CommaJoin(_)
CommaJoin(keywords) ==
  IF Len(keywords) = 0 THEN <<>>
  ELSE IF Len(keywords) = 1 THEN Sentence(keywords[1])
  ELSE Sentence(keywords[1]) \o <<",", SP>> \o CommaJoin(Tail(keywords))

(* a log entry written with the default danger arguments *)
_log_message_Defaults(user, direction, text, danger, keywords, timed, now) ==
  [direction |-> direction,
   text |-> text,
   gestational_age_at_message |-> current_gestational_age(user, now),
   danger_sign_detected |-> FALSE,
   danger_sign_keywords |-> None,
   response_time_ms |-> IF timed THEN Some("elapsed_ms") ELSE None,
   ai_model_used |-> IF direction = "outgoing" THEN Some("GEMINI_MODEL") ELSE None]

_log_message(user, direction, text, danger, keywords, timed, now) ==
  [direction |-> direction,
   text |-> text,
   gestational_age_at_message |-> current_gestational_age(user, now),
   danger_sign_detected |-> danger,
   danger_sign_keywords |-> keywords,
   response_time_ms |-> IF timed THEN Some("elapsed_ms") ELSE None,
   ai_model_used |-> IF direction = "outgoing" THEN Some("GEMINI_MODEL") ELSE None]

(* lines 186 and 195: the tokens a consent reply is compared with *)
AffirmativeTokens_EnglishOnly == { <<"yes">> }

AffirmativeTokens == { <<"yes">>, <<"ndiyo">>, <<"ndio">> }
NegativeTokens == { <<"no">>, <<"hapana">> }

(* ConversationHandler._handle_registration: [user, sends, error]; error is
   "dispatch" when a dispatch failed for good, which ends the flow there *)
(* deactivation whatever became of the closing message *)
ClosingThenDeactivate_Always(user, d) == deactivate_user(user)

(* lines 200-201: deactivate_user follows the dispatch of the closing
   message, so it is reached only when that dispatch did not raise *)
ClosingThenDeactivate(user, d) == IF d.ok THEN deactivate_user(user) ELSE user

_handle_registration(user, text, inp, now) ==
  LET text_lower == Lower(Strip(text))
  IN IF ~user.consent_given
     THEN IF text_lower \in AffirmativeTokens
          THEN LET u1 == update_user(user, [consent_given |-> TRUE], now)
                   d == send_text_message("ask_name", <<>>, inp.s1)
               IN [user |-> u1, sends |-> <<d>>, error |-> IF d.ok THEN "none" ELSE "dispatch"]
          ELSE IF text_lower \in NegativeTokens
          THEN LET d == send_text_message("closing", <<>>, inp.s1)
               IN [user |-> ClosingThenDeactivate(user, d),
                   sends |-> <<d>>, error |-> IF d.ok THEN "none" ELSE "dispatch"]
          ELSE LET d == send_text_message("reprompt_consent", <<>>, inp.s1)
               IN [user |-> user, sends |-> <<d>>, error |-> IF d.ok THEN "none" ELSE "dispatch"]
     ELSE IF IsNone(user.name)
     THEN LET u1 == update_user(user, [name |-> Some(Strip(text))], now)
              d == send_text_message("ask_weeks", <<Strip(text)>>, inp.s1)
          IN [user |-> u1, sends |-> <<d>>, error |-> IF d.ok THEN "none" ELSE "dispatch"]
     ELSE IF IsNone(user.gestational_age_at_enrollment)
     THEN LET weeks == ParseWeeks(text_lower)
          IN IF IsNone(weeks)
             THEN LET d == send_text_message("reprompt_weeks", <<>>, inp.s1)
                  IN [user |-> user, sends |-> <<d>>, error |-> IF d.ok THEN "none" ELSE "dispatch"]
             ELSE LET u1 == set_gestational_age(user, Get(weeks), now)
                      u2 == update_user(u1, [registration_complete |-> TRUE], now)
                      d == send_text_message("registered",
                             <<Get(weeks), u2.expected_delivery_date>>, inp.s1)
                  IN [user |-> u2, sends |-> <<d>>, error |-> IF d.ok THEN "none" ELSE "dispatch"]
     ELSE [user |-> user, sends |-> <<>>, error |-> "none"]

(* what one call of handle_incoming_message did; error names the exception
   that left the handler: "none", "database" (the subscriber lookup failed)
   or "dispatch" (a send failed on its last attempt) *)
NoEffect(us, hist) ==
  [users |-> us, history |-> hist, logged |-> <<>>, sends |-> <<>>,
   error |-> "none", classified |-> FALSE, genCalls |-> <<>>,
   markRead |-> "none", events |-> <<>>]

(* line 129: the generator's reply is worth a second message *)
IsNonTrivial_AtLeast(ai_response) == ai_response.len >= 20

IsNonTrivial(ai_response) == ai_response.len > 20

(* lines 108-156: classification, generation, dispatch and the outgoing log
   for a subscriber whose registration is complete *)
(* the generator called before the urgent-care message is dispatched *)
DangerPathOrder_GenerateFirst == <<"generate", "dispatch">>

(* lines 118 and 121: the urgent-care message is dispatched, then the
   generator is called *)
DangerPathOrder == <<"dispatch", "generate">>

RespondWith(us, hist, w, user, text, inp, now, base, g) ==
  LET danger_result == DetectionOf[text]
      aiPart == [kind |-> "ai", payload |-> <<g.reply>>]
      keywords == IF danger_result.keywords # <<>>
                  THEN Some(CommaJoin(danger_result.keywords)) ELSE None
  IN IF danger_result.detected
     THEN LET emergency_msg == get_emergency_response(inp.fac, user.language_preference)
              emPart == [kind |-> "emergency", payload |-> <<emergency_msg>>]
              d1 == send_text_message("emergency", <<emergency_msg>>, inp.s1)
          IN IF ~d1.ok
             THEN [base EXCEPT !.classified = TRUE, !.sends = <<d1>>,
                               !.error = "dispatch",
                               !.events = base.events \o <<"dispatch">>]
             ELSE IF IsNonTrivial(g.reply)
             THEN LET d2 == send_text_message("ai", <<g.reply>>, inp.s2)
                  IN IF ~d2.ok
                     THEN [base EXCEPT !.classified = TRUE,
                                       !.history = [hist EXCEPT ![w] = g.history],
                                       !.genCalls = <<g.call>>,
                                       !.sends = <<d1, d2>>, !.error = "dispatch",
                                       !.events = base.events \o DangerPathOrder
                                                    \o <<"dispatch">>]
                     ELSE [base EXCEPT !.classified = TRUE,
                                       !.history = [hist EXCEPT ![w] = g.history],
                                       !.genCalls = <<g.call>>,
                                       !.sends = <<d1, d2>>,
                                       !.logged = Append(base.logged,
                                          _log_message(user, "outgoing", <<emPart, aiPart>>,
                                                       TRUE, keywords, TRUE, now)),
                                       !.events = base.events \o DangerPathOrder
                                                    \o <<"dispatch", "log_outgoing">>]
             ELSE [base EXCEPT !.classified = TRUE,
                               !.history = [hist EXCEPT ![w] = g.history],
                               !.genCalls = <<g.call>>,
                               !.sends = <<d1>>,
                               !.logged = Append(base.logged,
                                  _log_message(user, "outgoing", <<emPart, aiPart>>,
                                               TRUE, keywords, TRUE, now)),
                               !.events = base.events \o DangerPathOrder
                                            \o <<"log_outgoing">>]
     ELSE LET d == send_text_message("ai", <<g.reply>>, inp.s1)
          IN IF ~d.ok
             THEN [base EXCEPT !.classified = TRUE,
                               !.history = [hist EXCEPT ![w] = g.history],
                               !.genCalls = <<g.call>>,
                               !.sends = <<d>>, !.error = "dispatch",
                               !.events = base.events \o <<"generate", "dispatch">>]
             ELSE [base EXCEPT !.classified = TRUE,
                               !.history = [hist EXCEPT ![w] = g.history],
                               !.genCalls = <<g.call>>,
                               !.sends = <<d>>,
                               !.logged = Append(base.logged,
                                  _log_message(user, "outgoing", <<aiPart>>,
                                               FALSE, keywords, TRUE, now)),
                               !.events = base.events \o
                                  <<"generate", "dispatch", "log_outgoing">>]

(* lines 108-156 with the generator's answer computed once *)
RespondRegistered(us, hist, w, user, text, inp, now, base) ==
  Bind(generate_response(text, hist[w], user.language_preference,
                         DetectionOf[text].detected, inp.gen, inp.cache),
       LAMBDA g : RespondWith(us, hist, w, user, text, inp, now, base, g))

(* line 104: the registration flow runs instead of the pipeline *)
InRegistration_Never(user) == FALSE

InRegistration(user) == ~user.registration_complete

(* ConversationHandler.handle_incoming_message *)
handle_incoming_message(us, hist, message, inp, now) ==
  IF IsNone(message.text) \/ Get(message.text) = <<>>
  THEN NoEffect(us, hist)
  ELSE LET text == Get(message.text)
           w == message.whatsapp_id
           read == IF _send_request(inp.read, 0).ok THEN "ok" ELSE "failed"
           start == [NoEffect(us, hist) EXCEPT !.markRead = read]
       IN IF ~inp.db
          THEN [start EXCEPT !.error = "database"]
          ELSE IF w \notin DOMAIN us
          THEN LET user == create_user(message, now)
                   d == send_text_message("welcome", <<user.language_preference>>, inp.s1)
               IN [start EXCEPT !.users = (w :> user) @@ us,
                                !.history = (w :> <<>>) @@ hist,
                                !.sends = <<d>>,
                                !.events = <<"dispatch">>]
          ELSE IF ~us[w].is_active
          THEN start
          ELSE LET user == us[w]
                   incoming == _log_message(user, "incoming",
                                 <<[kind |-> "user", payload |-> <<text>>]>>,
                                 FALSE, None, FALSE, now)
                   base == [start EXCEPT !.logged = <<incoming>>,
                                         !.events = <<"log_incoming">>]
               IN IF InRegistration(user)
                  THEN Bind(_handle_registration(user, text, inp, now),
                            LAMBDA r :
                              [base EXCEPT !.users = [us EXCEPT ![w] = r.user],
                                           !.sends = r.sends,
                                           !.error = r.error,
                                           !.events = base.events \o
                                              [i \in 1..Len(r.sends) |-> "dispatch"]])
                  ELSE RespondRegistered(us, hist, w, user, text, inp, now, base)

(* ---------------------- webhook endpoint ------------------------------- *)
(* lines 71-78 of receive_webhook: the try/except around the handler *)
WebhookReply_Uncaught(raised) ==
  IF raised THEN [status |-> 500, reply |-> "none"]
  ELSE [status |-> 200, reply |-> "ok"]

WebhookReply(raised) ==
  IF raised THEN [status |-> 200, reply |-> "error"]
  ELSE [status |-> 200, reply |-> "ok"]

(* receive_webhook: the response and what the handler did; status 500 is an
   exception that leaves the endpoint *)
Outcome(stage, status, reply, msg, eff) ==
  [stage |-> stage, status |-> status, reply |-> reply,
   msg |-> msg, users |-> eff.users, history |-> eff.history,
   logged |-> eff.logged, sends |-> eff.sends, error |-> eff.error,
   classified |-> eff.classified, genCalls |-> eff.genCalls,
   markRead |-> eff.markRead, events |-> eff.events]

receive_webhook(secret, us, hist, body, sig, inp, now) ==
  LET v == IF secret # "" THEN verify_whatsapp_signature(secret, body, sig)
           ELSE [raised |-> FALSE, ok |-> TRUE]
      none == NoEffect(us, hist)
  IN IF v.raised
     THEN Outcome("signature_error", 500, "none", None, none)
     ELSE IF ~v.ok
     THEN Outcome("signature_rejected", 200, "error", None, none)
     ELSE IF body.json = "invalid"
     THEN Outcome("json_error", 500, "none", None, none)
     ELSE LET p == parse_webhook_message(body)
          IN IF p.raised
             THEN Outcome("parse_error", 500, "none", None, none)
             ELSE IF IsNone(p.msg)
             THEN Outcome("no_message", 200, "ok", None, none)
             ELSE Bind(handle_incoming_message(us, hist, Get(p.msg), inp, now),
                       LAMBDA h :
                         LET r == WebhookReply(h.error # "none")
                         IN Outcome("handled", r.status, r.reply, p.msg, h))

(* ---------------------- inputs of one delivery ------------------------- *)
DefaultInput ==
  [read |-> OkScript, db |-> TRUE, s1 |-> OkScript, s2 |-> OkScript,
   gen |-> "long", cache |-> TRUE, fac |-> "found"]

(* what the network, the database, the generative backend, the cache and
   the facility lookup do during one delivery; only the collaborators that
   the delivery reaches are varied *)
InputsFor(secret, us, body, sig) ==
  LET v == IF secret # "" THEN verify_whatsapp_signature(secret, body, sig)
           ELSE [raised |-> FALSE, ok |-> TRUE]
      p == parse_webhook_message(body)
      reaches == /\ ~v.raised /\ v.ok /\ body.json = "object"
                 /\ ~p.raised /\ ~IsNone(p.msg)
                 /\ ~IsNone(Get(p.msg).text) /\ Get(Get(p.msg).text) # <<>>
      w == body.from
      reg == reaches /\ w \in DOMAIN us /\ us[w].is_active
             /\ us[w].registration_complete
      danger == reg /\ DetectionOf[body.text].detected
  IN IF ~reaches THEN {DefaultInput}
     ELSE { [DefaultInput EXCEPT !.db = FALSE],
            [DefaultInput EXCEPT !.read = FailStatusScript] }
          \cup { [DefaultInput EXCEPT !.s1 = s] : s \in SendScripts }
          \cup (IF reg
                THEN { [DefaultInput EXCEPT !.gen = g] : g \in GenOutcomes }
                     \cup { [DefaultInput EXCEPT !.gen = g, !.cache = FALSE] :
                              g \in {"long", "error"} }
                ELSE {})
          \cup (IF danger
                THEN { [DefaultInput EXCEPT !.fac = f, !.s2 = s, !.gen = g] :
                         f \in FacOutcomes, s \in {OkScript, FailStatusScript},
                         g \in {"long", "short"} }
                ELSE {})

(* ---------------------- state machine ---------------------------------- *)
(* the record of one delivery: the request (signature, body shape, parsed
   message), the subscriber before and after, the response and the effects *)
NoLast ==
  [stage |-> "none", sigValid |-> TRUE, sigAscii |-> TRUE, shape |-> "none",
   status |-> 200, reply |-> "ok", msg |-> None, before |-> None,
   after |-> None, logged |-> <<>>, sends |-> <<>>, error |-> "none",
   classified |-> FALSE, genCalls |-> <<>>, markRead |-> "none",
   detection |-> None, events |-> <<>>, emergency |-> None]

(* how the envelope departs from a text message *)
ShapeOf(body) ==
  IF body.json # "object" THEN body.json
  ELSE IF body.entry # "list" THEN "entry_" \o body.entry
  ELSE IF body.changes # "list" THEN "changes_" \o body.changes
  ELSE IF body.messages # "list" THEN "messages_" \o body.messages
  ELSE IF body.contacts # "wa_id" THEN "contacts_" \o body.contacts
  ELSE IF body.fromField # "str" THEN "from_" \o body.fromField
  ELSE IF body.mtype # "text" THEN body.mtype
  ELSE IF body.textField # "body" THEN "text_" \o body.textField
  ELSE IF body.text = <<>> THEN "empty_text"
  ELSE "text"

UserOf(us, w) == IF w \in DOMAIN us THEN Some(us[w]) ELSE None

(* deliveries handled concurrently, each in its own request and database
   session; one that has not arrived yet *)
Deliveries == 1..MaxDeliveries

Idle ==
  [pc |-> "idle", text |-> <<>>, seen |-> None, context |-> None,
   sends |-> <<>>, created |-> FALSE, stamp |-> 0, error |-> "none"]

Init ==
  /\ inflight = [d \in Deliveries |-> Idle]
  /\ appSecret \in {"", "s3cret"}
  /\ users = [w \in {} |-> 0]
  /\ turnCount = [w \in WaIds |-> [incoming |-> 0, outgoing |-> 0]]
  /\ history = [w \in {} |-> 0]
  /\ today \in {0, StartDay}
  /\ last = NoLast
  /\ adminEdits = 0
  /\ appended = [w \in WaIds |-> <<>>]

(* the turns handed to the context store that reached it, oldest first *)
Appended(log, w, calls) ==
  IF calls # <<>> /\ calls[1].stored
  THEN [log EXCEPT ![w] = Append(@, [user |-> calls[1].user_message,
                                     assistant |-> calls[1].reply])]
  ELSE log

CountTurns(counts, w, logged) ==
  [counts EXCEPT
     ![w] = [incoming |-> @.incoming
                          + Cardinality({i \in 1..Len(logged) : logged[i].direction = "incoming"}),
             outgoing |-> @.outgoing
                          + Cardinality({i \in 1..Len(logged) : logged[i].direction = "outgoing"})]]

TotalTurns ==
  LET Sum[S \in SUBSET WaIds] ==
        IF S = {} THEN 0
        ELSE LET w == CHOOSE x \in S : TRUE
             IN turnCount[w].incoming + turnCount[w].outgoing + Sum[S \ {w}]
  IN Sum[WaIds]

(* one POST delivery to the webhook, handled from the request to the
   response; last is the response on its way back to the platform *)
Deliver ==
  /\ last = NoLast
  /\ TotalTurns < MaxTurns
  /\ \E body \in Bodies :
       \E sig \in (IF appSecret = "" THEN {NoSignature} ELSE SigHeaders(body)) :
         \E inp \in InputsFor(appSecret, users, body, sig) :
           \E o \in {receive_webhook(appSecret, users, history, body, sig, inp, today)} :
              /\ users' = o.users
              /\ history' = o.history
              /\ appended' = Appended(appended, body.from, o.genCalls)
              /\ turnCount' = IF o.logged = <<>> THEN turnCount
                              ELSE CountTurns(turnCount, body.from, o.logged)
              /\ last' = [stage |-> o.stage,
                          sigValid |-> sig.value = <<"sha256=", Hmac(appSecret, body)>>,
                          sigAscii |-> sig.ascii,
                          shape |-> ShapeOf(body),
                          status |-> o.status, reply |-> o.reply, msg |-> o.msg,
                          before |-> IF IsNone(o.msg) THEN None
                                     ELSE UserOf(users, body.from),
                          after |-> IF IsNone(o.msg) THEN None
                                    ELSE UserOf(o.users, body.from),
                          logged |-> o.logged, sends |-> o.sends,
                          error |-> o.error, classified |-> o.classified,
                          genCalls |-> o.genCalls, markRead |-> o.markRead,
                          detection |-> IF o.classified
                                        THEN Some(DetectionOf[body.text])
                                        ELSE None,
                          events |-> o.events,
                          emergency |-> None]
  /\ UNCHANGED <<appSecret, today, adminEdits, inflight>>

(* the platform receives the response; the next delivery can start *)
Acknowledge ==
  /\ last # NoLast
  /\ last' = NoLast
  /\ UNCHANGED <<appSecret, users, turnCount, history, today, adminEdits,
                 appended, inflight>>

(* a week passes; a context window expires after 24 hours without an append *)
Tick ==
  /\ today + 7 <= MaxDay
  /\ today' = today + 7
  /\ history' = [w \in DOMAIN history |-> <<>>]
  /\ UNCHANGED <<appSecret, users, turnCount, last, adminEdits, appended,
                 inflight>>

(* PATCH /users/{user_id}: the bodies an administrator can send *)
AdminUpdates ==
  { [registration_complete |-> TRUE],
    [consent_given |-> FALSE],
    [name |-> None],
    [is_active |-> TRUE],
    [registration_complete |-> FALSE] }

AdminUpdate ==
  /\ last = NoLast
  /\ adminEdits < MaxAdminEdits
  /\ adminEdits' = adminEdits + 1
  /\ \E w \in DOMAIN users : \E update_data \in AdminUpdates :
       users' = [users EXCEPT ![w] = update_user(users[w], update_data, today)]
  /\ UNCHANGED <<appSecret, turnCount, history, today, last, appended,
                 inflight>>

Next == Deliver \/ Acknowledge

Spec == Init /\ [][Next]_vars

NextClock == Deliver \/ Acknowledge \/ Tick

SpecClock == Init /\ [][NextClock]_vars

NextAdmin == Deliver \/ Acknowledge \/ AdminUpdate

SpecAdmin == Init /\ [][NextAdmin]_vars

(* ---------------------- the components on their own ------------------- *)
(* texts handed to the classifier: several categories at once, several
   patterns of one category, a plural the word boundary excludes, Swahili,
   and texts without any danger sign *)
ClassifierTexts ==
  Texts \cup
  { Sentence(<<"I", "have", "severe", "headache", "and", "heavy", "Bleeding",
               "and", "I", "fainted">>),
    Sentence(<<"bleeding", "with", "blood", "clots">>),
    Sentence(<<"blood", "clots", "then", "bleeding">>),
    Sentence(<<"my", "water", "broke">>),
    Sentence(<<"severe", "pain", "and", "severe", "swelling">>),
    Sentence(<<"mtoto", "hachezi">>),
    Sentence(<<"convulsions">>),
    Sentence(<<"What", "should", "I", "eat">>),
    Sentence(<<"Hello">>) }

(* every way three POST attempts can go *)
AttemptOutcomes == {"ok", "http_status", "request_error", "other_error"}

AllScripts == [1..3 -> AttemptOutcomes]

EngineTexts == { <<"maybe">> }

(* a subscriber who completed registration, with a language preference *)
RegisteredSubscriber(w, language) ==
  update_user(
    set_gestational_age(
      update_user(
        update_user(create_user([from_number |-> w, whatsapp_id |-> w], 0),
                    [consent_given |-> TRUE], 0),
        [name |-> Some(<<"maybe">>)], 0),
      20, 0),
    [registration_complete |-> TRUE, language_preference |-> language], 0)

InitUnits ==
  /\ inflight = [d \in Deliveries |-> Idle]
  /\ appSecret = ""
  /\ \E language \in {"en", "sw"} :
       users = [w \in WaIds |-> RegisteredSubscriber(w, language)]
  /\ turnCount = [w \in WaIds |-> [incoming |-> 0, outgoing |-> 0]]
  /\ history = [w \in WaIds |-> <<>>]
  /\ appended = [w \in WaIds |-> <<>>]
  /\ today = 0
  /\ last = NoLast
  /\ adminEdits = 0

(* one call of AIEngine.generate_response for a subscriber *)
Generate ==
  /\ \E w \in DOMAIN users, user_message \in EngineTexts,
        gen \in GenOutcomes \ {"short"}, cacheUp \in BOOLEAN :
       /\ Len(appended[w]) < MaxAppends
       /\ \E g \in {generate_response(user_message, history[w],
                                       users[w].language_preference,
                                       FALSE, gen, cacheUp)} :
            /\ history' = [history EXCEPT ![w] = g.history]
            /\ appended' = Appended(appended, w, <<g.call>>)
            /\ last' = [NoLast EXCEPT !.stage = "generate",
                                      !.genCalls = <<g.call>>]
  /\ UNCHANGED <<appSecret, users, turnCount, today, adminEdits, inflight>>

(* one call of WhatsAppClient.send_text_message *)
Send ==
  /\ \A w \in WaIds : appended[w] = <<>>
  /\ \E script \in AllScripts :
       last' = [NoLast EXCEPT !.stage = "send",
                             !.sends = <<send_text_message("ai", <<>>, script)>>]
  /\ UNCHANGED <<appSecret, users, turnCount, history, today, adminEdits,
                 appended, inflight>>

(* one call of detect_danger_signs *)
Classify ==
  /\ \A w \in WaIds : appended[w] = <<>>
  /\ \E message \in ClassifierTexts :
       last' = [NoLast EXCEPT
                  !.stage = "classify",
                  !.classified = TRUE,
                  !.msg = Some([from_number |-> "", whatsapp_id |-> "",
                                message_type |-> "text",
                                text |-> Some(message)]),
                  !.detection = Some(detect_danger_signs(message))]
  /\ UNCHANGED <<appSecret, users, turnCount, history, today, adminEdits,
                 appended, inflight>>

(* one call of get_emergency_response *)
Emergency ==
  /\ \A w \in WaIds : appended[w] = <<>>
  /\ \E fac \in LookupOutcomes, language \in {"en", "sw", "fr"} :
       last' = [NoLast EXCEPT
                  !.stage = "emergency",
                  !.emergency = Some([fac |-> fac, language |-> language,
                                      raised |-> FALSE,
                                      response |-> get_emergency_response(fac, language)])]
  /\ UNCHANGED <<appSecret, users, turnCount, history, today, adminEdits,
                 appended, inflight>>

NextUnits == Generate \/ Send \/ Classify \/ Emergency

SpecUnits == InitUnits /\ [][NextUnits]_vars

(* ---------------------- concurrent deliveries -------------------------- *)
(* the platform id all concurrent deliveries come from *)
RaceId == CHOOSE w \in WaIds : TRUE

(* texts of the concurrent deliveries; none holds a danger sign *)
RaceTexts == { <<"maybe">>, <<"42">> }

(* a subscriber who consented and has not given a name yet *)
AwaitingNameSubscriber(w) ==
  update_user(create_user([from_number |-> w, whatsapp_id |-> w], 0),
              [consent_given |-> TRUE], 0)

InitRace ==
  /\ appSecret = ""
  /\ users \in { [w \in {} |-> 0],
                  [w \in {RaceId} |-> AwaitingNameSubscriber(w)],
                  [w \in {RaceId} |-> RegisteredSubscriber(w, "en")] }
  /\ turnCount = [w \in WaIds |-> [incoming |-> 0, outgoing |-> 0]]
  /\ history = [w \in DOMAIN users |-> <<>>]
  /\ appended = [w \in WaIds |-> <<>>]
  /\ today = 0
  /\ last = NoLast
  /\ adminEdits = 0
  /\ inflight = [d \in Deliveries |-> Idle]

(* the number of writes to the subscriber's row and context list so far *)
Writes ==
  Cardinality({ d \in Deliveries : inflight[d].stamp > 0 })

(* the UPDATE a flush issues: the columns the handler changed on its own
   copy of the row, written over the row as it is now *)
Merge_Optimistic(row, snapshot, changed) ==
  [f \in DOMAIN row |->
     IF changed[f] # snapshot[f] /\ row[f] = snapshot[f]
     THEN changed[f] ELSE row[f]]

Merge(row, snapshot, changed) ==
  [f \in DOMAIN row |->
     IF changed[f] # snapshot[f] THEN changed[f] ELSE row[f]]

(* POST /webhook with a valid text envelope from RaceId *)
Receive(d) ==
  /\ inflight[d].pc = "idle"
  /\ \E text \in RaceTexts :
       inflight' = [inflight EXCEPT ![d].pc = "lookup", ![d].text = text]
  /\ UNCHANGED <<appSecret, users, turnCount, history, today, last,
                 adminEdits, appended>>

(* line 83: the subscriber as this request's session reads it *)
Lookup(d) ==
  /\ inflight[d].pc = "lookup"
  /\ LET user == UserOf(users, RaceId)
     IN inflight' =
          [inflight EXCEPT
             ![d].seen = user,
             ![d].pc = IF IsNone(user) THEN "create"
                       ELSE IF ~Get(user).is_active THEN "done"
                       ELSE IF InRegistration(Get(user)) THEN "register"
                       ELSE "read_context"]
  /\ UNCHANGED <<appSecret, users, turnCount, history, today, last,
                 adminEdits, appended>>

(* an INSERT that ignores the unique constraint on whatsapp_id *)
Create_Unconstrained(d) ==
  /\ inflight[d].pc = "create"
  /\ users' = (RaceId :> create_user([from_number |-> RaceId,
                                      whatsapp_id |-> RaceId], today)) @@ users
  /\ history' = (RaceId :> <<>>) @@ history
  /\ inflight' = [inflight EXCEPT ![d].pc = "welcome", ![d].created = TRUE]
  /\ UNCHANGED <<appSecret, turnCount, today, last, adminEdits, appended>>

(* line 88: _create_new_user; the INSERT of the flush violates the unique
   constraint on whatsapp_id when another request has inserted the id, and
   the IntegrityError leaves the handler *)
Create(d) ==
  /\ inflight[d].pc = "create"
  /\ IF RaceId \in DOMAIN users
     THEN /\ inflight' = [inflight EXCEPT ![d].pc = "done",
                                          ![d].error = "integrity"]
          /\ UNCHANGED <<users, history>>
     ELSE /\ users' = (RaceId :> create_user([from_number |-> RaceId,
                                              whatsapp_id |-> RaceId], today))
                      @@ users
          /\ history' = (RaceId :> <<>>) @@ history
          /\ inflight' = [inflight EXCEPT ![d].pc = "welcome",
                                          ![d].created = TRUE]
  /\ UNCHANGED <<appSecret, turnCount, today, last, adminEdits, appended>>

(* line 89: _send_welcome, which swallows a failed dispatch *)
Welcome(d) ==
  /\ inflight[d].pc = "welcome"
  /\ \E script \in {OkScript, FailStatusScript} :
       inflight' =
         [inflight EXCEPT
            ![d].pc = "done",
            ![d].sends = <<send_text_message("welcome",
                             <<users[RaceId].language_preference>>, script)>>]
  /\ UNCHANGED <<appSecret, users, turnCount, history, today, last,
                 adminEdits, appended>>

(* lines 96-106: the incoming log entry and _handle_registration, decided on
   the row as this request read it *)
Register(d) ==
  /\ inflight[d].pc = "register"
  /\ \E script \in {OkScript, FailStatusScript} :
       \E r \in {_handle_registration(Get(inflight[d].seen), inflight[d].text,
                                      [DefaultInput EXCEPT !.s1 = script],
                                      today)} :
         /\ users' = [users EXCEPT
                        ![RaceId] = Merge(@, Get(inflight[d].seen), r.user)]
         /\ inflight' =
              [inflight EXCEPT
                 ![d].pc = "done",
                 ![d].sends = r.sends,
                 ![d].error = r.error,
                 ![d].stamp = IF r.user # Get(inflight[d].seen)
                              THEN Writes + 1 ELSE 0]
  /\ turnCount' = [turnCount EXCEPT ![RaceId].incoming = @ + 1]
  /\ UNCHANGED <<appSecret, history, today, last, adminEdits, appended>>

(* lines 96-101 of the handler and 101 of generate_response: the incoming
   log entry, the classifier and the read of the context list *)
ReadContext(d) ==
  /\ inflight[d].pc = "read_context"
  /\ ~DetectionOf[inflight[d].text].detected
  /\ inflight' =
       [inflight EXCEPT
          ![d].pc = "respond",
          ![d].context = Some(_get_conversation_history(history[RaceId], TRUE))]
  /\ turnCount' = [turnCount EXCEPT ![RaceId].incoming = @ + 1]
  /\ UNCHANGED <<appSecret, users, history, today, last, adminEdits, appended>>

(* lines 113-124 of generate_response and 142-156 of the handler: the
   backend's answer to the prompt built from the context read earlier, the
   append to the context list as it is now, the dispatch and the outgoing
   log entry *)
Respond(d) ==
  /\ inflight[d].pc = "respond"
  /\ \E script \in {OkScript, FailStatusScript} :
       \E g \in {generate_response(inflight[d].text, history[RaceId],
                                    Get(inflight[d].seen).language_preference,
                                    FALSE, "long", TRUE)} :
         \E sent \in {send_text_message("ai", <<g.reply>>, script)} :
           /\ history' = [history EXCEPT ![RaceId] = g.history]
           /\ appended' = Appended(appended, RaceId, <<g.call>>)
           /\ turnCount' = IF sent.ok
                           THEN [turnCount EXCEPT ![RaceId].outgoing = @ + 1]
                           ELSE turnCount
           /\ inflight' =
                [inflight EXCEPT
                   ![d].pc = "done",
                   ![d].sends = <<sent>>,
                   ![d].error = IF sent.ok THEN "none" ELSE "dispatch",
                   ![d].stamp = Writes + 1]
  /\ UNCHANGED <<appSecret, users, today, last, adminEdits>>

NextRace ==
  \E d \in Deliveries :
    \/ Receive(d)
    \/ Lookup(d)
    \/ Create(d)
    \/ Welcome(d)
    \/ Register(d)
    \/ ReadContext(d)
    \/ Respond(d)

SpecRace == InitRace /\ [][NextRace]_vars

(* ====================== properties ===================================== *)
(* the last delivery carried a non-empty text and reached the handler *)
HandledText ==
  /\ last.stage = "handled"
  /\ ~IsNone(Get(last.msg).text)
  /\ Get(Get(last.msg).text) # <<>>

LastText == Get(Get(last.msg).text)

(* the text of the last delivery after trim and lowercase *)
LastToken == Lower(Strip(LastText))

(* the subscriber existed and was active when the last delivery arrived, and
   the database answered *)
FromActiveSubscriber ==
  /\ HandledText
  /\ ~IsNone(last.before)
  /\ Get(last.before).is_active
  /\ last.error # "database"

Before == Get(last.before)
After == Get(last.after)

LoggedCount(direction) ==
  Cardinality({ i \in 1..Len(last.logged) : last.logged[i].direction = direction })

RegistrationPrompts ==
  {"ask_name", "closing", "reprompt_consent", "ask_weeks", "reprompt_weeks",
   "registered"}

(* C1: every inbound text message from an existing, active subscriber
   results in exactly one incoming ConversationTurn and exactly one outgoing
   ConversationTurn, in every registration state, for both classifier
   outcomes and for every outcome of the outbound dispatch. *)
C1_OneIncomingOneOutgoing ==
  FromActiveSubscriber =>
    /\ LoggedCount("incoming") = 1
    /\ LoggedCount("outgoing") = 1

(* C2: an exception raised while handle_incoming_message processes a parsed
   message is caught in receive_webhook and answered with a success status;
   it never leaves the endpoint. *)
C2_HandlerErrorsAcknowledged ==
  (last.stage = "handled" /\ last.error # "none") =>
    /\ last.status = 200
    /\ last.reply = "error"

C2_Witness ==
  /\ last.stage = "handled"
  /\ last.error = "dispatch"
  /\ Len(last.sends) = 1
  /\ last.sends[1].attempts = 3
  /\ last.status = 200

(* C3: every POST delivery, whatever its body, is answered with a 2xx
   acknowledgement; a malformed body is ignored without any side effect and
   never yields a non-success status. *)
C3_EveryBodyAcknowledged ==
  (last.stage # "none" /\ (appSecret = "" \/ last.sigValid)) =>
    /\ last.status = 200
    /\ (last.shape \notin {"text", "empty_text", "image", "text_absent"}
          => last.logged = <<>> /\ last.sends = <<>> /\ last.after = last.before)

(* C4: when an app secret is configured and the signature header is not
   "sha256=" followed by the HMAC-SHA256 of the raw body, the endpoint
   answers with a success status without parsing the envelope or invoking
   the handler: no subscriber created or changed, no turn, no dispatch. *)
C4_BadSignatureIgnored ==
  (appSecret # "" /\ last.stage # "none" /\ ~last.sigValid) =>
    /\ last.status = 200
    /\ IsNone(last.msg)
    /\ last.logged = <<>>
    /\ last.sends = <<>>
    /\ last.markRead = "none"

(* C5: in every reachable state, for every subscriber, registration_complete
   implies that the name is set, consent_given is true and the gestational
   age at enrollment is set, after any sequence of inbound messages and of
   admin profile updates. *)
C5_CompleteImpliesFields ==
  \A w \in DOMAIN users :
    users[w].registration_complete =>
      /\ ~IsNone(users[w].name)
      /\ users[w].consent_given
      /\ ~IsNone(users[w].gestational_age_at_enrollment)

(* C6: over any sequence of inbound messages the derived registration state
   of a subscriber never moves to an earlier state, and consent_given and
   registration_complete never change from true to false. *)
C6_RegistrationMonotone ==
  [][\A w \in DOMAIN users :
       /\ w \in DOMAIN users'
       /\ Rank(DerivedState(users'[w])) >= Rank(DerivedState(users[w]))
       /\ (users[w].consent_given => users'[w].consent_given)
       /\ (users[w].registration_complete => users'[w].registration_complete)]_vars

C6_Witness ==
  /\ FromActiveSubscriber
  /\ DerivedState(Before) = STATE_AWAITING_GESTATIONAL_AGE
  /\ DerivedState(After) = STATE_REGISTERED
  /\ After.registration_complete
  /\ \E w \in DOMAIN users : users[w] = After

(* C7: a subscriber in AWAITING_CONSENT who replies with a negative token
   ("no" or "hapana" after trim and lowercase) is deactivated, and every
   later inbound text from a deactivated subscriber is dropped: nothing is
   dispatched, no turn is logged and no subscriber field changes. *)
C7_NegativeReplyDeactivates ==
  /\ (/\ FromActiveSubscriber
      /\ DerivedState(Before) = STATE_AWAITING_CONSENT
      /\ ~Before.registration_complete
      /\ LastToken \in { <<"no">>, <<"hapana">> })
       => ~After.is_active
  /\ (/\ HandledText
      /\ ~IsNone(last.before)
      /\ ~Before.is_active)
       => /\ last.sends = <<>>
          /\ last.logged = <<>>
          /\ last.after = last.before

(* C8: from AWAITING_CONSENT an affirmative token, then a name, then an
   integer in 1..42 advance the derived state one step per message, each
   message dispatching exactly one prompt for the next step; no message
   advances the state by more than one step. *)
C8_OneStepPerMessage ==
  FromActiveSubscriber =>
    /\ Rank(DerivedState(After)) <= Rank(DerivedState(Before)) + 1
    /\ (DerivedState(Before) = STATE_AWAITING_CONSENT
          /\ LastToken \in { <<"yes">>, <<"ndiyo">>, <<"ndio">> })
         => /\ DerivedState(After) = STATE_AWAITING_NAME
            /\ Len(last.sends) = 1
            /\ last.sends[1].kind = "ask_name"
    /\ (DerivedState(Before) = STATE_AWAITING_NAME)
         => /\ DerivedState(After) = STATE_AWAITING_GESTATIONAL_AGE
            /\ Len(last.sends) = 1
            /\ last.sends[1].kind = "ask_weeks"
    /\ (DerivedState(Before) = STATE_AWAITING_GESTATIONAL_AGE
          /\ Split(LastToken) # <<>>
          /\ Split(LastToken)[1] \in Numerals
          /\ IntOf(Split(LastToken)[1]) \in 1..42)
         => /\ DerivedState(After) = STATE_REGISTERED
            /\ Len(last.sends) = 1
            /\ last.sends[1].kind = "registered"

C8_Witness ==
  /\ FromActiveSubscriber
  /\ DerivedState(Before) = STATE_AWAITING_GESTATIONAL_AGE
  /\ Before.name = Some(<<"maybe">>)
  /\ Before.consent_given_at = Some(today)
  /\ LastText = <<"20">>
  /\ DerivedState(After) = STATE_REGISTERED
  /\ Len(last.sends) = 1
  /\ last.sends[1].kind = "registered"

(* C9: in AWAITING_GESTATIONAL_AGE, for a reply whose first
   whitespace-delimited token parses as an integer w: if 1 <= w <= 42 the
   subscriber gets gestational_age_at_enrollment = w, expected_delivery_date
   = today + (40 - w) weeks and registration_complete = true; otherwise the
   reply is rejected and the state stays AWAITING_GESTATIONAL_AGE. *)
C9_GestationalAgeReply ==
  (/\ FromActiveSubscriber
   /\ ~Before.registration_complete
   /\ DerivedState(Before) = STATE_AWAITING_GESTATIONAL_AGE
   /\ Split(LastToken) # <<>>
   /\ Split(LastToken)[1] \in Numerals)
    => LET w == IntOf(Split(LastToken)[1])
       IN IF 1 <= w /\ w <= 42
          THEN /\ After.gestational_age_at_enrollment = Some(w)
               /\ After.expected_delivery_date = Some(today + 7 * (40 - w))
               /\ After.registration_complete
          ELSE /\ After = Before
               /\ DerivedState(After) = STATE_AWAITING_GESTATIONAL_AGE

C9_Witness ==
  /\ FromActiveSubscriber
  /\ DerivedState(Before) = STATE_AWAITING_GESTATIONAL_AGE
  /\ LastText = <<"20">>
  /\ today = StartDay
  /\ After.gestational_age_at_enrollment = Some(20)
  /\ After.expected_delivery_date = Some(StartDay + 140)
  /\ After.registration_complete

(* C10: while a subscriber's registration is not complete the handler never
   runs the danger-sign classifier and never invokes the response generator,
   whatever the text (a danger-sign phrase included); the only dispatched
   message is a registration prompt (the welcome prompt for a subscriber
   created by the message). *)
C10_NoPipelineDuringRegistration ==
  /\ (FromActiveSubscriber /\ ~Before.registration_complete) =>
       /\ ~last.classified
       /\ last.genCalls = <<>>
       /\ Len(last.sends) = 1
       /\ last.sends[1].kind \in RegistrationPrompts
  /\ (HandledText /\ IsNone(last.before) /\ last.error # "database") =>
       /\ ~last.classified
       /\ last.genCalls = <<>>
       /\ Len(last.sends) = 1
       /\ last.sends[1].kind = "welcome"
       /\ ~After.registration_complete

C10_Witness ==
  /\ FromActiveSubscriber
  /\ ~Before.registration_complete
  /\ detect_danger_signs(LastText).detected
  /\ ~last.classified
  /\ Len(last.sends) = 1
  /\ last.sends[1].kind \in RegistrationPrompts

(* the last delivery came from a registered active subscriber *)
FromRegistered == FromActiveSubscriber /\ Before.registration_complete

SendsOfKind(kind) ==
  { i \in 1..Len(last.sends) : last.sends[i].kind = kind }

(* C11 as stated: for a registered active subscriber, when a danger sign is
   detected exactly one urgent-care message is dispatched and the generator
   is invoked exactly once with the danger flag set, its output dispatched as
   a second message iff it is longer than 20 characters; when none is
   detected the generator is invoked exactly once with the flag unset and its
   output is dispatched as the single reply. *)
C11_AsStated ==
  FromRegistered =>
    IF detect_danger_signs(LastText).detected
    THEN /\ Cardinality(SendsOfKind("emergency")) = 1
         /\ Len(last.genCalls) = 1
         /\ last.genCalls[1].danger
         /\ (SendsOfKind("ai") # {} <=> last.genCalls[1].reply.len > 20)
    ELSE /\ Len(last.genCalls) = 1
         /\ ~last.genCalls[1].danger
         /\ Len(last.sends) = 1
         /\ last.sends[1].kind = "ai"
         /\ last.sends[1].payload = <<last.genCalls[1].reply>>

(* C11 amended: as stated whenever the urgent-care dispatch succeeds; when
   the urgent-care dispatch fails on its last attempt the handling ends
   there: the urgent-care message is the only dispatch and the generator is
   not invoked. *)
C11_DangerAndRoutineReplies ==
  FromRegistered =>
    IF detect_danger_signs(LastText).detected
    THEN /\ last.sends # <<>>
         /\ last.sends[1].kind = "emergency"
         /\ SendsOfKind("emergency") = {1}
         /\ IF last.sends[1].ok
            THEN /\ Len(last.genCalls) = 1
                 /\ last.genCalls[1].danger
                 /\ IF last.genCalls[1].reply.len > 20
                    THEN /\ Len(last.sends) = 2
                         /\ last.sends[2].kind = "ai"
                         /\ last.sends[2].payload = <<last.genCalls[1].reply>>
                    ELSE Len(last.sends) = 1
            ELSE /\ last.genCalls = <<>>
                 /\ Len(last.sends) = 1
                 /\ last.error = "dispatch"
    ELSE /\ Len(last.genCalls) = 1
         /\ ~last.genCalls[1].danger
         /\ Len(last.sends) = 1
         /\ last.sends[1].kind = "ai"
         /\ last.sends[1].payload = <<last.genCalls[1].reply>>

C11_Witness ==
  /\ FromRegistered
  /\ detect_danger_signs(LastText).detected
  /\ Len(last.sends) = 2
  /\ last.sends[1].kind = "emergency" /\ last.sends[1].ok
  /\ last.sends[2].kind = "ai" /\ last.sends[2].ok
  /\ last.genCalls[1].danger
  /\ last.genCalls[1].reply.len = LongReplyLen

(* the retry loop's outcome on the last dispatch, read off its script: the
   attempt that ended it *)
FirstOk(script) ==
  { k \in 1..3 : script[k] = "ok" /\ \A j \in 1..(k - 1) : script[j] # "ok" }

(* C12 as stated: send_text_message makes at most 3 attempts, returns on the
   first successful attempt without further attempts, and when all 3 fail
   the error of the third propagates; every failed attempt, whatever its
   error, is retried until the third. *)
C12_AsStated ==
  \A i \in 1..Len(last.sends) :
    LET d == last.sends[i]
    IN /\ d.attempts <= 3
       /\ \A k \in FirstOk(d.script) : d.ok /\ d.attempts = k
       /\ FirstOk(d.script) = {} =>
            ~d.ok /\ d.attempts = 3 /\ d.error = d.script[3]

(* C12 amended: at most 3 attempts; an attempt that fails with an HTTP error
   status or a transport error is retried until the third, whose error
   propagates; the first successful attempt ends the loop; an attempt that
   fails with any other exception ends the loop at once with that
   exception. *)
C12_BoundedRetry ==
  \A i \in 1..Len(last.sends) :
    LET d == last.sends[i]
        ends == { k \in 1..3 :
                    /\ \/ d.script[k] \notin {"http_status", "request_error"}
                       \/ k = 3
                    /\ \A j \in 1..(k - 1) :
                         d.script[j] \in {"http_status", "request_error"} }
    IN /\ d.attempts <= 3
       /\ \A k \in ends :
            /\ d.attempts = k
            /\ d.ok <=> d.script[k] = "ok"
            /\ d.error = IF d.script[k] = "ok" THEN "none" ELSE d.script[k]
       /\ Cardinality(ends) = 1

C12_Witness ==
  /\ last.stage = "send"
  /\ last.sends[1].script = <<"request_error", "http_status", "request_error">>
  /\ ~last.sends[1].ok
  /\ last.sends[1].attempts = 3
  /\ last.sends[1].error = "request_error"

(* C13: generate_response never raises to its caller: whatever the
   generative call and the context cache do it returns a reply, and the
   reply is the fixed fallback string of the subscriber's language (Swahili
   for "sw", English otherwise) whenever the generative call raised or
   returned empty or missing text. *)
C13_FallbackNeverRaises ==
  \A i \in 1..Len(last.genCalls) :
    LET c == last.genCalls[i]
    IN /\ ~c.raised
       /\ c.reply.src \in {"backend", "fallback_sw", "fallback_en"}
       /\ c.gen \in {"error", "empty"} =>
            c.reply = IF c.language = "sw"
                      THEN [src |-> "fallback_sw", len |-> 162]
                      ELSE [src |-> "fallback_en", len |-> 154]

C13_Witness ==
  /\ last.stage = "generate"
  /\ last.genCalls[1].gen = "error"
  /\ ~last.genCalls[1].cache
  /\ last.genCalls[1].language = "sw"
  /\ last.genCalls[1].reply.src = "fallback_sw"

(* the k most recent of a log, newest first *)
NewestFirst(log, k) == [i \in 1..k |-> log[Len(log) + 1 - i]]

MinOf(a, b) == IF a < b THEN a ELSE b

(* C14: for one subscriber, after k successful context appends the history
   read returns exactly the min(k, 6) most recently appended records, newest
   first, and the stored list never holds more than 6 records. *)
C14_ContextWindow ==
  \A w \in WaIds :
    /\ _get_conversation_history(history[w], TRUE)
         = NewestFirst(appended[w], MinOf(Len(appended[w]), 6))
    /\ Len(history[w]) <= 6

(* N+2 appends of records that tell the windows apart *)
C14_Witness ==
  \E w \in WaIds :
    /\ Len(appended[w]) = 8
    /\ appended[w][1].assistant.src = "backend"
    /\ appended[w][2].assistant.src = "backend"
    /\ appended[w][3].assistant.src # "backend"
    /\ appended[w][8].assistant.len = 0
    /\ appended[w][7].assistant.len = LongReplyLen
    /\ Len(_get_conversation_history(history[w], TRUE)) = 6
    /\ _get_conversation_history(history[w], TRUE)[1] = appended[w][8]
    /\ _get_conversation_history(history[w], TRUE)[6] = appended[w][3]
    /\ last.stage = "generate"
    /\ last.genCalls[1].stored

(* C18 as stated: after producing a reply generate_response always appends
   the turn to the context store, on every fallback path too. *)
C18_AlwaysAppends ==
  \A i \in 1..Len(last.genCalls) : last.genCalls[i].append

(* the text last handed to the classifier, its words and the result *)
ClassifiedWords == Split(Get(last.msg).text[1])

Detected == Get(last.detection)

(* position of a category in the pattern table *)
TableIndex(category) == CHOOSE c \in 1..Len(Categories) : Categories[c] = category

(* the patterns of a category that match somewhere in the words *)
MatchingPatterns(words, category) ==
  { k \in 1..Len(DANGER_SIGN_PATTERNS[category]) :
      ~IsNone(PatternSearch(words, DANGER_SIGN_PATTERNS[category][k])) }

(* C15: detect_danger_signs returns detected = true iff at least one
   category matched; the matched categories are exactly those with a
   matching pattern, without duplicates and in the order of the pattern
   table; keywords holds one literal match per matched category, that of the
   first pattern of the category that matches; a text matching no pattern
   yields detected = false with both lists empty. *)
C15_ClassifierResult ==
  last.stage = "classify" =>
    LET r == Detected
        words == ClassifiedWords
        matched == { c \in 1..Len(Categories) :
                       MatchingPatterns(words, Categories[c]) # {} }
    IN /\ r.detected <=> matched # {}
       /\ r.detected <=> Len(r.categories) > 0
       /\ { r.categories[i] : i \in 1..Len(r.categories) }
            = { Categories[c] : c \in matched }
       /\ \A i, j \in 1..Len(r.categories) :
            i < j => TableIndex(r.categories[i]) < TableIndex(r.categories[j])
       /\ Len(r.keywords) = Len(r.categories)
       /\ \A i \in 1..Len(r.categories) :
            \E k \in MatchingPatterns(words, r.categories[i]) :
              /\ \A j \in MatchingPatterns(words, r.categories[i]) : k <= j
              /\ Some(r.keywords[i])
                   = PatternSearch(words, DANGER_SIGN_PATTERNS[r.categories[i]][k])
       /\ matched = {} =>
            ~r.detected /\ r.categories = <<>> /\ r.keywords = <<>>

(* three categories at once, one of them through its second alternative and
   with the case of the text kept *)
C15_Witness ==
  /\ last.stage = "classify"
  /\ Detected.detected
  /\ Detected.categories = <<"bleeding", "headache_vision", "convulsions">>
  /\ Detected.keywords
       = << <<"heavy", "Bleeding">>, <<"severe", "headache">>, <<"fainted">> >>

(* two patterns of one category match: the keyword is that of the first *)
C15_WitnessFirstPattern ==
  /\ last.stage = "classify"
  /\ ClassifiedWords = <<"blood", "clots", "then", "bleeding">>
  /\ Detected.categories = <<"bleeding">>
  /\ Detected.keywords = << <<"bleeding">> >>

(* no pattern matches *)
C15_WitnessNone ==
  /\ last.stage = "classify"
  /\ ClassifiedWords = <<"What", "should", "I", "eat">>
  /\ ~Detected.detected
  /\ Detected.categories = <<>>
  /\ Detected.keywords = <<>>

(* the last delivery was a text from a platform id without a subscriber, and
   the database answered *)
FromNewId ==
  /\ HandledText
  /\ IsNone(last.before)
  /\ last.error # "database"

(* C16: for an inbound text from a platform id with no subscriber,
   handle_incoming_message creates the subscriber with default cohort and
   language (consent false, registration incomplete, active), dispatches
   the welcome prompt, logs no turn and does not read the text as a consent
   reply; a failed welcome dispatch neither undoes the creation nor
   raises. *)
C16_NewSubscriber ==
  FromNewId =>
    /\ Get(last.msg).whatsapp_id \in DOMAIN users
    /\ ~IsNone(last.after)
    /\ After = [phone_number |-> Get(last.msg).from_number,
                study_group |-> "intervention",
                name |-> None,
                gestational_age_at_enrollment |-> None,
                expected_delivery_date |-> None,
                enrolled_at |-> today,
                is_active |-> TRUE,
                language_preference |-> "en",
                registration_complete |-> FALSE,
                consent_given |-> FALSE,
                consent_given_at |-> None]
    /\ Len(last.sends) = 1
    /\ last.sends[1].kind = "welcome"
    /\ last.sends[1].payload = <<"en">>
    /\ last.logged = <<>>
    /\ turnCount[Get(last.msg).whatsapp_id] = [incoming |-> 0, outgoing |-> 0]
    /\ ~last.classified
    /\ last.genCalls = <<>>
    /\ last.error = "none"
    /\ last.status = 200

(* an affirmative first message whose welcome prompt could not be delivered *)
C16_Witness ==
  /\ FromNewId
  /\ LastToken = <<"ndiyo">>
  /\ ~last.sends[1].ok
  /\ last.sends[1].attempts = 3
  /\ ~After.consent_given
  /\ last.status = 200

(* the outgoing log entries of the last delivery *)
OutgoingTurns ==
  { i \in 1..Len(last.logged) : last.logged[i].direction = "outgoing" }

IncomingTurns ==
  { i \in 1..Len(last.logged) : last.logged[i].direction = "incoming" }

(* C17 as stated: within the handling of one inbound event of a registered
   active subscriber, the incoming log entry is written before the outgoing
   log entry, and the outgoing log entry is written before the outgoing
   message is dispatched. *)
C17_LogBeforeDispatch ==
  FromRegistered =>
    \A i, j \in 1..Len(last.events) :
      /\ (last.events[i] = "log_incoming" /\ last.events[j] = "log_outgoing")
           => i < j
      /\ (last.events[i] = "log_outgoing" /\ last.events[j] = "dispatch")
           => i < j

(* C19 as stated: the text of the outgoing ConversationTurn consists of
   exactly the messages dispatched to the subscriber for that inbound event:
   the generator reply alone when one message was sent, the urgent-care
   message followed by the generator reply only when both were sent. *)
C19_LoggedTextIsDispatched ==
  FromRegistered =>
    \A i \in OutgoingTurns :
      last.logged[i].text
        = [k \in 1..Len(last.sends) |->
             [kind |-> last.sends[k].kind, payload |-> last.sends[k].payload]]

(* C20: for an inbound text from a registered active subscriber whose reply
   is dispatched, the outgoing ConversationTurn records danger_sign_detected
   equal to the classifier's result on that text and the matched keywords
   joined with ", " (null when none matched), and carries the latency and
   the generator identifier; incoming turns carry neither. *)
C20_OutgoingTurnFields ==
  FromRegistered =>
    /\ (last.error = "none") => Cardinality(OutgoingTurns) = 1
    /\ \A i \in OutgoingTurns :
         LET r == detect_danger_signs(LastText)
             turn == last.logged[i]
         IN /\ turn.danger_sign_detected = r.detected
            /\ turn.danger_sign_keywords
                 = IF r.keywords = <<>> THEN None
                   ELSE Some(CommaJoin(r.keywords))
            /\ ~IsNone(turn.response_time_ms)
            /\ ~IsNone(turn.ai_model_used)
    /\ \A i \in IncomingTurns :
         /\ IsNone(last.logged[i].response_time_ms)
         /\ IsNone(last.logged[i].ai_model_used)
         /\ ~last.logged[i].danger_sign_detected

(* a danger text answered by both messages: the flag and the literal match
   with the case of the text *)
C20_Witness ==
  /\ FromRegistered
  /\ last.error = "none"
  /\ Len(last.sends) = 2
  /\ \E i \in OutgoingTurns :
       /\ last.logged[i].danger_sign_detected
       /\ last.logged[i].danger_sign_keywords = Some(<<"heavy", SP, "Bleeding">>)
       /\ last.logged[i].ai_model_used = Some("GEMINI_MODEL")

(* a routine text: the flag unset and no keywords *)
C20_WitnessRoutine ==
  /\ FromRegistered
  /\ last.error = "none"
  /\ \E i \in OutgoingTurns :
       /\ ~last.logged[i].danger_sign_detected
       /\ IsNone(last.logged[i].danger_sign_keywords)

(* the last delivery came from an active subscriber in registration who had
   not consented yet, and its text is neither an affirmative nor a negative
   token *)
UnrecognizedConsentReply ==
  /\ FromActiveSubscriber
  /\ ~Before.registration_complete
  /\ ~Before.consent_given
  /\ LastToken \notin { <<"yes">>, <<"ndiyo">>, <<"ndio">>, <<"no">>, <<"hapana">> }

(* the last delivery came from an active subscriber asked for the
   gestational age, and its text is empty after trimming, not a number, or a
   number outside 1..42 *)
InvalidWeeksReply ==
  /\ FromActiveSubscriber
  /\ ~Before.registration_complete
  /\ Before.consent_given
  /\ ~IsNone(Before.name)
  /\ IsNone(Before.gestational_age_at_enrollment)
  /\ LET toks == Split(LastToken)
     IN \/ toks = <<>>
        \/ toks[1] \notin Numerals
        \/ IntOf(toks[1]) < 1
        \/ IntOf(toks[1]) > 42

(* C21: a domain validation failure during registration (an unrecognized
   consent reply, or a gestational-age reply that is empty after trimming,
   non-numeric or outside 1..42) leaves every subscriber field unchanged
   and dispatches exactly one re-prompt for the same question. *)
C21_ValidationFailureReprompts ==
  /\ UnrecognizedConsentReply =>
       /\ After = Before
       /\ Len(last.sends) = 1
       /\ last.sends[1].kind = "reprompt_consent"
  /\ InvalidWeeksReply =>
       /\ After = Before
       /\ Len(last.sends) = 1
       /\ last.sends[1].kind = "reprompt_weeks"

(* an out-of-range number followed by a word *)
C21_Witness ==
  /\ InvalidWeeksReply
  /\ LastText = <<"0", SP, "weeks">>
  /\ After = Before
  /\ last.sends[1].kind = "reprompt_weeks"
  /\ last.sends[1].ok

C21_WitnessTooLarge ==
  /\ InvalidWeeksReply
  /\ LastText = <<"43">>
  /\ After = Before

C21_WitnessBlank ==
  /\ InvalidWeeksReply
  /\ LastText = <<SP>>
  /\ After = Before

C21_WitnessConsent ==
  /\ UnrecognizedConsentReply
  /\ LastText = <<"maybe">>
  /\ After = Before
  /\ last.sends[1].kind = "reprompt_consent"

(* the last delivery came from an active subscriber asked for the name *)
InAwaitingName ==
  /\ FromActiveSubscriber
  /\ ~Before.registration_complete
  /\ DerivedState(Before) = STATE_AWAITING_NAME

(* C22 as stated: in AWAITING_NAME the name is set only from a reply whose
   trimmed text is non-empty: after a message handled in that state the
   stored name is still unset or a non-empty trimmed string, and the state
   advances to AWAITING_GESTATIONAL_AGE only in the latter case. *)
C22_NameNonEmpty ==
  InAwaitingName =>
    /\ \/ IsNone(After.name)
       \/ /\ Get(After.name) # <<>>
          /\ Get(After.name) = Strip(LastText)
    /\ DerivedState(After) = STATE_AWAITING_GESTATIONAL_AGE
         => (~IsNone(After.name) /\ Get(After.name) # <<>>)

(* C23: the context history read returns an empty sequence, never an error,
   when the key is absent or the cache is unreachable, and a cache failure
   during the read or the append neither changes the reply of
   generate_response nor makes it raise: the reply is the one returned with
   a working cache, the backend's reply when the backend works. *)
C23_CacheFailureHarmless ==
  /\ \A w \in DOMAIN history :
       /\ _get_conversation_history(history[w], FALSE) = <<>>
       /\ history[w] = <<>> => _get_conversation_history(history[w], TRUE) = <<>>
  /\ \A i \in 1..Len(last.genCalls) :
       LET c == last.genCalls[i]
       IN /\ ~c.raised
          /\ ~c.cache => (c.history = 0 /\ ~c.stored)
          /\ c.reply = generate_response(c.user_message, <<>>, c.language,
                                         c.danger, c.gen, TRUE).reply
          /\ c.gen = "long" => c.reply = [src |-> "backend", len |-> LongReplyLen]

(* the cache fails while the list holds earlier turns and the backend
   answers *)
C23_Witness ==
  /\ last.stage = "generate"
  /\ \E w \in WaIds : Len(history[w]) >= 2
  /\ ~last.genCalls[1].cache
  /\ last.genCalls[1].gen = "long"
  /\ last.genCalls[1].history = 0
  /\ last.genCalls[1].reply.src = "backend"
  /\ ~last.genCalls[1].stored

(* a concurrent delivery ended after reading the subscriber in AWAITING_NAME *)
SawAwaitingName(d) ==
  /\ inflight[d].pc = "done"
  /\ ~IsNone(inflight[d].seen)
  /\ Get(inflight[d].seen).is_active
  /\ ~Get(inflight[d].seen).registration_complete
  /\ DerivedState(Get(inflight[d].seen)) = STATE_AWAITING_NAME

(* a concurrent delivery ended after reading an empty context list of a
   registered subscriber *)
SawEmptyContext(d) ==
  /\ inflight[d].pc = "done"
  /\ inflight[d].context = Some(<<>>)

(* C24: without per-subscriber serialization two concurrent deliveries for a
   subscriber in AWAITING_NAME can both observe AWAITING_NAME; then both set
   the name, the later write overwriting the earlier, and each dispatches its
   own gestational-age prompt; likewise two deliveries can both read the
   context list before either appends, and both turns are appended, neither
   reply having been generated from the other's turn. *)
C24_RaceOutcome ==
  /\ \A d \in Deliveries :
       SawAwaitingName(d) =>
         /\ inflight[d].stamp > 0
         /\ Len(inflight[d].sends) = 1
         /\ inflight[d].sends[1].kind = "ask_weeks"
         /\ inflight[d].sends[1].payload = <<Strip(inflight[d].text)>>
         /\ (\A e \in Deliveries :
               SawAwaitingName(e) => inflight[e].stamp <= inflight[d].stamp)
             => users[RaceId].name = Some(Strip(inflight[d].text))
  /\ \A d \in Deliveries :
       SawEmptyContext(d) =>
         LET newer == { e \in Deliveries :
                          /\ inflight[e].pc = "done"
                          /\ ~IsNone(inflight[e].context)
                          /\ inflight[e].stamp >= inflight[d].stamp }
         IN /\ Cardinality(newer) <= Len(history[RaceId])
            /\ history[RaceId][Cardinality(newer)].user = inflight[d].text

(* both deliveries read AWAITING_NAME; the first name written is gone and
   its prompt was dispatched all the same *)
C24_Witness ==
  \E d1, d2 \in Deliveries :
    /\ d1 # d2
    /\ SawAwaitingName(d1) /\ SawAwaitingName(d2)
    /\ inflight[d1].stamp = 1 /\ inflight[d2].stamp = 2
    /\ inflight[d1].text = <<"maybe">> /\ inflight[d2].text = <<"42">>
    /\ users[RaceId].name = Some(<<"42">>)
    /\ inflight[d1].sends[1].ok
    /\ inflight[d1].sends[1].payload = << <<"maybe">> >>
    /\ inflight[d2].sends[1].ok

(* both deliveries read the empty context list; both turns were appended *)
C24_WitnessContext ==
  \E d1, d2 \in Deliveries :
    /\ d1 # d2
    /\ SawEmptyContext(d1) /\ SawEmptyContext(d2)
    /\ Len(history[RaceId]) = 2

(* the welcome prompts dispatched by the concurrent deliveries *)
WelcomesSent ==
  { d \in Deliveries :
      \E i \in 1..Len(inflight[d].sends) : inflight[d].sends[i].kind = "welcome" }

(* C28: under any interleaving of concurrent deliveries from one previously
   unseen platform id, at most one subscriber record is created for the id
   and at most one welcome prompt is dispatched for it; a delivery whose
   INSERT meets the record of another ends with an error and without a
   prompt. *)
C28_OneRecordOneWelcome ==
  /\ Cardinality({ d \in Deliveries : inflight[d].created }) <= 1
  /\ Cardinality(WelcomesSent) <= 1
  /\ \A d \in Deliveries :
       /\ inflight[d].created => RaceId \in DOMAIN users
       /\ d \in WelcomesSent => inflight[d].created
       /\ inflight[d].error = "integrity" =>
            (IsNone(inflight[d].seen) /\ ~inflight[d].created
             /\ inflight[d].sends = <<>>)

(* both deliveries missed the subscriber at the lookup; one created it and
   sent the prompt, the other failed on the unique constraint *)
C28_Witness ==
  \E d1, d2 \in Deliveries :
    /\ d1 # d2
    /\ inflight[d1].pc = "done" /\ inflight[d2].pc = "done"
    /\ IsNone(inflight[d1].seen) /\ IsNone(inflight[d2].seen)
    /\ inflight[d1].created
    /\ inflight[d2].error = "integrity"
    /\ WelcomesSent = {d1}
    /\ RaceId \in DOMAIN users

(* C25: get_emergency_response never raises and returns the urgent-care
   header, a non-empty contact block and the disclaimer footer, all in
   Swahili when the language is "sw" and in English otherwise; the contact
   block is the hardcoded fallback exactly when the lookup returns no
   facility, raises, or no database session is given, and the formatted
   lookup result otherwise. *)
C25_EmergencyResponse ==
  last.stage = "emergency" =>
    LET e == Get(last.emergency)
        lang == IF e.language = "sw" THEN "sw" ELSE "en"
    IN /\ ~e.raised
       /\ e.response.header = <<"EMERGENCY_RESPONSE_HEADER", lang>>
       /\ e.response.footer = <<"EMERGENCY_RESPONSE_FOOTER", lang>>
       /\ e.response.contacts # <<>>
       /\ e.response.contacts[2] = lang
       /\ e.response.contacts[1] = "FALLBACK_CONTACTS"
            <=> e.fac \in {"none", "error", "no_session"}
       /\ e.response.contacts[1] = "format_emergency_message"
            <=> e.fac = "found"

(* the lookup finds nothing for a Swahili speaker *)
C25_Witness ==
  /\ last.stage = "emergency"
  /\ Get(last.emergency).fac = "none"
  /\ Get(last.emergency).language = "sw"
  /\ Get(last.emergency).response.contacts = <<"FALLBACK_CONTACTS", "sw">>

(* a language that is neither "sw" nor "en", with facilities found *)
C25_WitnessOther ==
  /\ last.stage = "emergency"
  /\ Get(last.emergency).fac = "found"
  /\ Get(last.emergency).language = "fr"
  /\ Get(last.emergency).response.header = <<"EMERGENCY_RESPONSE_HEADER", "en">>
  /\ Get(last.emergency).response.contacts = <<"format_emergency_message", "en">>

(* C26 as stated: in every reachable state an active subscriber with
   registration_complete = false has at least one of consent, name or
   gestational age unset, so every inbound text from such a subscriber
   takes one branch of _handle_registration and gets exactly one dispatched
   reply; no reachable state lets the handler return without replying. *)
C26_RegistrationNeverStuck ==
  /\ \A w \in DOMAIN users :
       (users[w].is_active /\ ~users[w].registration_complete) =>
         \/ ~users[w].consent_given
         \/ IsNone(users[w].name)
         \/ IsNone(users[w].gestational_age_at_enrollment)
  /\ (FromActiveSubscriber /\ ~Before.registration_complete) =>
       Len(last.sends) = 1

(* the last delivery came from a registered active subscriber and its text
   holds a danger sign *)
DangerFromRegistered ==
  /\ FromRegistered
  /\ detect_danger_signs(LastText).detected

(* C27: for a registered active subscriber whose text triggers a danger
   sign, the dispatch of the urgent-care message is attempted before the
   response generator is invoked, so whatever the generator and the context
   cache do, the urgent-care message is the first message dispatched. *)
C27_UrgentCareFirst ==
  DangerFromRegistered =>
    /\ Len(last.sends) >= 1
    /\ last.sends[1].kind = "emergency"
    /\ \A i \in 1..Len(last.events) :
         last.events[i] = "generate" =>
           \E j \in 1..(i - 1) : last.events[j] = "dispatch"
    /\ last.genCalls # <<>> => last.sends[1].ok

(* the generator raises and the cache is down: the urgent-care message went
   out first, the fallback after it *)
C27_Witness ==
  /\ DangerFromRegistered
  /\ Len(last.genCalls) = 1
  /\ last.genCalls[1].gen = "error"
  /\ ~last.genCalls[1].cache
  /\ last.sends[1].kind = "emergency"
  /\ last.sends[1].ok
  /\ last.events = <<"log_incoming", "dispatch", "generate", "dispatch",
                     "log_outgoing">>

(* the last delivery came from an active subscriber in registration *)
InRegistrationFlow == FromActiveSubscriber /\ ~Before.registration_complete

(* the number a valid gestational-age reply starts with, or None *)
ValidWeeksOf(token) ==
  LET toks == Split(token)
  IN IF toks # <<>> /\ toks[1] \in Numerals
        /\ IntOf(toks[1]) >= 1 /\ IntOf(toks[1]) <= 42
     THEN Some(IntOf(toks[1])) ELSE None

(* C29: on a negative consent reply the closing message is dispatched before
   the subscriber is deactivated: the subscriber is deactivated if and only
   if that dispatch succeeds, and stays active in AWAITING_CONSENT when it
   fails on its final attempt; on an affirmative reply, a name reply or a
   valid gestational-age reply the record is updated before the prompt is
   dispatched and keeps the update when the dispatch fails. *)
C29_UpdateAndDispatchOrder ==
  InRegistrationFlow =>
    /\ (~Before.consent_given /\ LastToken \in { <<"no">>, <<"hapana">> }) =>
         /\ Len(last.sends) = 1
         /\ last.sends[1].kind = "closing"
         /\ After.is_active <=> ~last.sends[1].ok
         /\ ~last.sends[1].ok =>
              (After = Before /\ DerivedState(After) = STATE_AWAITING_CONSENT)
    /\ (~Before.consent_given
          /\ LastToken \in { <<"yes">>, <<"ndiyo">>, <<"ndio">> }) =>
         /\ Len(last.sends) = 1
         /\ last.sends[1].kind = "ask_name"
         /\ After.consent_given
    /\ (Before.consent_given /\ IsNone(Before.name)) =>
         /\ Len(last.sends) = 1
         /\ last.sends[1].kind = "ask_weeks"
         /\ After.name = Some(Strip(LastText))
    /\ (Before.consent_given /\ ~IsNone(Before.name)
          /\ IsNone(Before.gestational_age_at_enrollment)
          /\ ~IsNone(ValidWeeksOf(LastToken))) =>
         /\ Len(last.sends) = 1
         /\ last.sends[1].kind = "registered"
         /\ After.gestational_age_at_enrollment = ValidWeeksOf(LastToken)
         /\ After.registration_complete

(* the closing message fails on its third attempt: still active *)
C29_Witness ==
  /\ InRegistrationFlow
  /\ LastToken = <<"no">>
  /\ ~last.sends[1].ok
  /\ last.sends[1].attempts = 3
  /\ After.is_active
  /\ last.error = "dispatch"

(* the confirmation fails on its third attempt: registered all the same *)
C29_WitnessKept ==
  /\ InRegistrationFlow
  /\ last.sends[1].kind = "registered"
  /\ ~last.sends[1].ok
  /\ After.registration_complete
  /\ After.gestational_age_at_enrollment = Some(42)

(* the last delivery completed the registration of its subscriber *)
JustRegistered ==
  /\ InRegistrationFlow
  /\ After.registration_complete
  /\ Len(last.sends) = 1
  /\ last.sends[1].kind = "registered"

(* C30 as stated: immediately after a subscriber completes registration with
   gestational age w, current_gestational_age() equals w, the value
   announced in the confirmation message, however many days elapsed between
   the subscriber's first message and the gestational-age reply; afterwards
   it equals w plus the whole weeks elapsed since the enrollment timestamp,
   and it is null while the gestational age is unset. *)
C30_CurrentAgeAfterRegistration ==
  [][/\ (last' # last /\ JustRegistered') =>
          /\ current_gestational_age(After', today')
               = After'.gestational_age_at_enrollment
          /\ current_gestational_age(After', today')
               = Some(last'.sends[1].payload[1])
     /\ \A w \in DOMAIN users' :
          current_gestational_age(users'[w], today')
            = IF IsNone(users'[w].gestational_age_at_enrollment) THEN None
              ELSE Some(Get(users'[w].gestational_age_at_enrollment)
                        + ((today' - users'[w].enrolled_at) \div 7))]_vars

====
